---- MODULE Spec2Model ----
(***************************************************************************)
(* PopupPickerController (picmo): the open / close / toggle / destroy      *)
(* lifecycle of the popup emoji picker, its document-click and keydown     *)
(* handlers, the Web Animations it starts and waits for, and the           *)
(* positioning cleanup.                                                    *)
(*                                                                         *)
(* Every async method is a task: the code up to its first await runs in    *)
(* the step of the call, and each continuation after an await is one step, *)
(* taken from the head of the microtask queue.  An animation finishes      *)
(* only when the microtask queue is empty (it is the next frame's work),   *)
(* and animations of equal duration finish in the order they were started. *)
(* Calls and DOM events may arrive between any two steps.                  *)
(***************************************************************************)
EXTENDS Integers, Sequences, FiniteSets, TLC

\* Bounds of the model.
MaxCalls == 3
MaxCallbacks == 1
MaxGiven == 2
MaxSkins == 5

\* const SHOW_HIDE_DURATION = 150;
SHOW_HIDE_DURATION == 150

VARIABLES
  options,          \* the options the controller was constructed with
  elAnimate,        \* picker.el.animate is a function (Web Animations supported)
  isOpen,           \* PopupPickerController.isOpen
  popupParent,      \* the parent of popupEl: "none" when detached
  positionCleanup,  \* 0: undefined; p > 0: the cleanup returned to the task p
  cleanupCalls,     \* how often each cleanup function has been invoked
  docListener,      \* onDocumentClick is registered on the document
  pickerDestroyed,  \* picker.destroy() has been invoked
  callbacks,        \* 'picker:open' callbacks held by externalEvents
  running,          \* animations on picker.el with playState 'running', oldest first
  tasks,            \* one record per call of an async method
  queue,            \* microtask queue: the tasks whose await has resolved
  waiting,          \* tasks awaiting running animations, in the order they began to wait
  resolved,         \* the task whose promise the last step resolved, or 0
  lastCall,         \* the most recent call, with the state it was made in
  eff,              \* what has happened since the most recent call
  defaultOptions,   \* options.ts: the shared defaultOptions object
  given,            \* the argument of the last getOptions call
  result,           \* what the last getOptions call returned
  buttons,          \* VariantPopup: the number of buttons rendered (0: not rendered)
  focus,            \* VariantPopup: the index of the focused button, from 0
  pressed           \* VariantPopup: the keys pressed, with the focus each one found

vars == <<options, elAnimate, isOpen, popupParent, positionCleanup, cleanupCalls,
          docListener, pickerDestroyed, callbacks, running, tasks, queue, waiting,
          resolved, lastCall, eff, defaultOptions, given, result, buttons, focus,
          pressed>>

config == <<options, elAnimate>>

\* The state of options.ts and of the VariantPopup view, which the popup
\* controller never touches.
aside == <<defaultOptions, given, result, buttons, focus, pressed>>

\* The state of the popup controller, which options.ts and the view never touch.
popup == <<options, elAnimate, isOpen, popupParent, positionCleanup, cleanupCalls,
           docListener, pickerDestroyed, callbacks, running, tasks, queue, waiting,
           resolved, lastCall, eff>>

TaskIds == 1..MaxCalls

Keys == {"Escape", "Enter", "ArrowDown"}

NoCall ==
  [id |-> 0, api |-> "none", acted |-> "none", preIsOpen |-> FALSE,
   preParent |-> "none", preQuiescent |-> TRUE]

NoEffects == [emitted |-> 0, invoked |-> 0, reset |-> FALSE, cleaned |-> FALSE]

\* A faulty rootElement: options.rootElement is ignored.
rootElementIgnoringOption == "body"

\* this.rootElement = options.rootElement || document.body;
rootElement ==
  IF options.rootElement = "undefined" THEN "body" ELSE options.rootElement

\* this.autoHide = options.autoHide ?? true;  (the option is given as its effective value)
autoHide == options.autoHide

\* No async method is in flight.
Quiescent == queue = <<>> /\ waiting = <<>>

\* this.picker.el.getAnimations().filter(animation => animation.playState === 'running')
getRunningAnimations == {running[i] : i \in DOMAIN running}

\* duration: prefersReducedMotion() ? 0 : SHOW_HIDE_DURATION
AnimationDuration(reduced) == IF reduced THEN 0 ELSE SHOW_HIDE_DURATION

\* A faulty openReturnsEarly: the guard is missing.
openNeverReturnsEarly == FALSE

\* if (this.isOpen) { return; }
openReturnsEarly == isOpen

\* A faulty closeReturnsEarly: the guard is missing.
closeNeverReturnsEarly == FALSE

\* if (!this.isOpen) { return; }
closeReturnsEarly == ~isOpen

\* A faulty toggleTarget: toggle() always opens.
toggleAlwaysOpens == "open"

\* return this.isOpen ? this.close() : this.open();
toggleTarget == IF isOpen THEN "close" ELSE "open"

\* A faulty isDismissKey: every key dismisses.
anyKeyDismisses(key) == TRUE

\* if (event.key === 'Escape')
isDismissKey(key) == key = "Escape"

\* if (this.isOpen && !this.picker.isPickerClick(event) && !isClickOnTrigger)
clickCloses(isPickerClick, isClickOnTrigger) ==
  isOpen /\ ~isPickerClick /\ ~isClickOnTrigger

----------------------------------------------------------------------------
\* options.ts.  Option values are written as the text of their JavaScript value.

\* const defaultOptions: Partial<PickerOptions> = { ... }
defaultOptionsObject ==
  [renderer |-> "new NativeRenderer()", theme |-> "lightTheme", animate |-> "true",
   showSearch |-> "true", showCategoryTabs |-> "true", showVariants |-> "true",
   showRecents |-> "true", showPreview |-> "true", emojisPerRow |-> "8",
   visibleRows |-> "6", emojiVersion |-> "auto", maxRecents |-> "50",
   i18n |-> "en", locale |-> "en", custom |-> "[]"]

\* Keys of PickerOptions: those of defaultOptions, rootElement, and two that
\* defaultOptions does not hold.
OptionKeys == DOMAIN defaultOptionsObject \cup {"rootElement", "emojiSize", "categories"}

\* {}: an object without keys.
NoOptions == [k \in {} |-> ""]

\* What a caller may give for a key: undefined, or a value other than the default.
argumentValue(k, choice) ==
  IF choice = 0 THEN "undefined"
  ELSE CASE k \in {"animate", "showSearch", "showCategoryTabs", "showVariants",
                   "showRecents", "showPreview"} -> "false"
         [] k \in {"emojisPerRow", "visibleRows", "maxRecents", "emojiVersion"} -> "12"
         [] k = "rootElement" -> "document.querySelector('#picker')"
         [] OTHER -> "custom " \o k

\* A faulty spread: keys already present are kept.
spreadKeepingFirst(a, b) ==
  [k \in DOMAIN a \cup DOMAIN b |-> IF k \in DOMAIN a THEN a[k] ELSE b[k]]

\* { ...a, ...b }
spread(a, b) ==
  [k \in DOMAIN a \cup DOMAIN b |-> IF k \in DOMAIN b THEN b[k] ELSE a[k]]

\* return { ...defaultOptions, rootElement: document.body, ...options }
getOptions(o) ==
  spread(spread(defaultOptions, [rootElement |-> "document.body"]), o)

----------------------------------------------------------------------------
\* VariantPopup: the base emoji and its skins are rendered as buttons, and the
\* arrow keys move the focus through them.

\* The button focused after ArrowRight on button i of n.
arrowRightTarget(i, n) == IF i = n - 1 THEN 0 ELSE i + 1

\* A faulty arrowLeftTarget: the focus stops at the first button.
arrowLeftStops(i, n) == IF i = 0 THEN 0 ELSE i - 1

\* The button focused after ArrowLeft on button i of n.
arrowLeftTarget(i, n) == IF i = 0 THEN n - 1 ELSE i - 1

PopupInit ==
  /\ options \in [rootElement : {"undefined", "custom"}, animate : BOOLEAN,
                  autoHide : BOOLEAN]
  /\ elAnimate \in BOOLEAN
  /\ isOpen = FALSE
  /\ popupParent = "none"
  /\ positionCleanup = 0
  /\ cleanupCalls = [p \in TaskIds |-> 0]
  /\ docListener = TRUE
  /\ pickerDestroyed = FALSE
  /\ callbacks = 0
  /\ running = <<>>
  /\ tasks = <<>>
  /\ queue = <<>>
  /\ waiting = <<>>
  /\ resolved = 0
  /\ lastCall = NoCall
  /\ eff = NoEffects

\* options.ts is loaded and the view is not rendered; no getOptions call is made.
AsideInit ==
  /\ defaultOptions = defaultOptionsObject
  /\ given = [passed |-> FALSE, options |-> NoOptions]
  /\ result = NoOptions
  /\ buttons = 0
  /\ focus = 0
  /\ pressed = <<>>

Init == PopupInit /\ AsideInit

----------------------------------------------------------------------------
\* The calls.

NewId == Len(tasks) + 1

Called(api, acted) ==
  /\ lastCall' = [id |-> NewId, api |-> api, acted |-> acted, preIsOpen |-> isOpen,
                  preParent |-> popupParent, preQuiescent |-> Quiescent]
  /\ eff' = NoEffects

\* A call that returns at once: its promise is resolved by the call.
ReturnAtOnce(op) ==
  /\ tasks' = Append(tasks, [op |-> op, pc |-> "done", wait |-> {}, anim |-> -1])
  /\ resolved' = NewId
  /\ UNCHANGED <<queue, waiting>>

\* initiateOpenStateChange(openState), called by a new task: the open state is
\* marked at once, then the task awaits the animations running now.
initiateOpenStateChange(op, openState) ==
  /\ isOpen' = openState
  /\ tasks' = Append(tasks, [op |-> op, pc |-> "initiated",
                             wait |-> getRunningAnimations, anim |-> -1])
  /\ IF getRunningAnimations = {}
       THEN queue' = Append(queue, NewId) /\ waiting' = waiting
       ELSE queue' = queue /\ waiting' = Append(waiting, NewId)
  /\ resolved' = 0

\* open(), up to its first await.
open(api) ==
  /\ Len(tasks) < MaxCalls
  /\ IF openReturnsEarly
       THEN /\ ReturnAtOnce("open")
            /\ Called(api, "none")
            /\ UNCHANGED isOpen
       ELSE /\ initiateOpenStateChange("open", TRUE)
            /\ Called(api, "open")
  /\ UNCHANGED <<config, aside, popupParent, positionCleanup, cleanupCalls, docListener,
                 pickerDestroyed, callbacks, running>>

\* close(), up to its first await.
close(api) ==
  /\ Len(tasks) < MaxCalls
  /\ IF closeReturnsEarly
       THEN /\ ReturnAtOnce("close")
            /\ Called(api, "none")
            /\ UNCHANGED isOpen
       ELSE /\ initiateOpenStateChange("close", FALSE)
            /\ Called(api, "close")
  /\ UNCHANGED <<config, aside, popupParent, positionCleanup, cleanupCalls, docListener,
                 pickerDestroyed, callbacks, running>>

Open == open("open")

Close == close("close")

Toggle == IF toggleTarget = "close" THEN close("toggle") ELSE open("toggle")

\* destroy(), up to its first await; all of it when the picker is not open.
Destroy ==
  /\ Len(tasks) < MaxCalls
  /\ IF isOpen
       THEN /\ initiateOpenStateChange("destroy", FALSE)
            /\ Called("destroy", "close")
            /\ UNCHANGED <<docListener, pickerDestroyed, callbacks>>
       ELSE /\ ReturnAtOnce("destroy")
            /\ Called("destroy", "none")
            /\ docListener' = FALSE
            /\ pickerDestroyed' = TRUE
            /\ callbacks' = 0
            /\ UNCHANGED isOpen
  /\ UNCHANGED <<config, aside, popupParent, positionCleanup, cleanupCalls, running>>

\* on('picker:open', callback)
On ==
  /\ callbacks < MaxCallbacks
  /\ callbacks' = callbacks + 1
  /\ resolved' = 0
  /\ UNCHANGED <<config, aside, isOpen, popupParent, positionCleanup, cleanupCalls,
                 docListener, pickerDestroyed, running, tasks, queue, waiting,
                 lastCall, eff>>

----------------------------------------------------------------------------
\* The events.

\* A click on the document; onDocumentClick runs while it is registered.
DocumentClick(isPickerClick, isClickOnTrigger) ==
  IF docListener /\ clickCloses(isPickerClick, isClickOnTrigger)
    THEN close("click")
    ELSE /\ resolved' = 0
         /\ UNCHANGED <<config, aside, isOpen, popupParent, positionCleanup, cleanupCalls,
                        docListener, pickerDestroyed, callbacks, running, tasks,
                        queue, waiting, lastCall, eff>>

\* A keydown event on the popup element.
handleKeydown(key) ==
  IF isDismissKey(key)
    THEN close("keydown")
    ELSE /\ resolved' = 0
         /\ UNCHANGED <<config, aside, isOpen, popupParent, positionCleanup, cleanupCalls,
                        docListener, pickerDestroyed, callbacks, running, tasks,
                        queue, waiting, lastCall, eff>>

\* The picker emits 'emoji:select'.
EmojiSelect ==
  IF autoHide
    THEN close("select")
    ELSE /\ resolved' = 0
         /\ UNCHANGED <<config, aside, isOpen, popupParent, positionCleanup, cleanupCalls,
                        docListener, pickerDestroyed, callbacks, running, tasks,
                        queue, waiting, lastCall, eff>>

----------------------------------------------------------------------------
\* The continuations.

Cur == Head(queue)

Rest == Tail(queue)

\* this.positionCleanup?.(); this.positionCleanup = setPosition(...)
setPosition(id) ==
  /\ cleanupCalls' = IF positionCleanup # 0
                       THEN [cleanupCalls EXCEPT ![positionCleanup] = @ + 1]
                       ELSE cleanupCalls
  /\ positionCleanup' = id

\* A faulty animateOpenStateChange: the animation is started but its finished
\* promise is not awaited.
animateWithoutAwait(id, reduced) ==
  LET d == AnimationDuration(reduced)
      runs == elAnimate /\ d > 0
  IN /\ tasks' = [tasks EXCEPT ![id] =
                    [op |-> @.op, pc |-> "animating", wait |-> {},
                     anim |-> IF elAnimate THEN d ELSE -1]]
     /\ running' = IF runs THEN Append(running, id) ELSE running
     /\ queue' = Append(Rest, id)
     /\ waiting' = waiting

\* A faulty animateOpenStateChange: the task awaits a promise that is never
\* settled.
animateNeverSettles(id, reduced) ==
  /\ tasks' = [tasks EXCEPT ![id] =
                 [op |-> @.op, pc |-> "animating", wait |-> {id}, anim |-> -1]]
  /\ running' = running
  /\ queue' = Rest
  /\ waiting' = Append(waiting, id)

\* animateOpenStateChange(openState), and the await of what it returns: the
\* finished promise of the new animation, or undefined without el.animate.
animateOpenStateChange(id, reduced) ==
  LET d == AnimationDuration(reduced)
      runs == elAnimate /\ d > 0
  IN /\ tasks' = [tasks EXCEPT ![id] =
                    [op |-> @.op, pc |-> "animating",
                     wait |-> IF runs THEN {id} ELSE {},
                     anim |-> IF elAnimate THEN d ELSE -1]]
     /\ running' = IF runs THEN Append(running, id) ELSE running
     /\ queue' = IF runs THEN Rest ELSE Append(Rest, id)
     /\ waiting' = IF runs THEN Append(waiting, id) ELSE waiting

\* open(), from the first await to the second.
OpenAttach ==
  /\ queue # <<>>
  /\ tasks[Cur].op = "open" /\ tasks[Cur].pc = "initiated"
  /\ popupParent' = rootElement
  /\ setPosition(Cur)
  /\ \E reduced \in BOOLEAN : animateOpenStateChange(Cur, reduced)
  /\ resolved' = 0
  /\ UNCHANGED <<config, aside, isOpen, docListener, pickerDestroyed, callbacks, lastCall, eff>>

\* open(), after the second await.
OpenFinish ==
  /\ queue # <<>>
  /\ tasks[Cur].op = "open" /\ tasks[Cur].pc = "animating"
  /\ eff' = [eff EXCEPT !.emitted = @ + 1, !.invoked = @ + callbacks]
  /\ tasks' = [tasks EXCEPT ![Cur].pc = "done"]
  /\ queue' = Rest
  /\ resolved' = Cur
  /\ UNCHANGED <<config, aside, isOpen, popupParent, positionCleanup, cleanupCalls,
                 docListener, pickerDestroyed, callbacks, running, waiting, lastCall>>

\* close(), from the first await to the second.
CloseAnimate ==
  /\ queue # <<>>
  /\ tasks[Cur].op \in {"close", "destroy"} /\ tasks[Cur].pc = "initiated"
  /\ \E reduced \in BOOLEAN : animateOpenStateChange(Cur, reduced)
  /\ resolved' = 0
  /\ UNCHANGED <<config, aside, isOpen, popupParent, positionCleanup, cleanupCalls,
                 docListener, pickerDestroyed, callbacks, lastCall, eff>>

\* close(), after the second await.  this.positionCleanup() throws a TypeError
\* while positionCleanup is undefined: the promise is then rejected.
CloseFinish ==
  /\ queue # <<>>
  /\ tasks[Cur].op \in {"close", "destroy"} /\ tasks[Cur].pc = "animating"
  /\ popupParent' = "none"
  /\ IF positionCleanup = 0
       THEN /\ eff' = [eff EXCEPT !.reset = TRUE]
            /\ tasks' = [tasks EXCEPT ![Cur].pc = "rejected"]
            /\ queue' = Rest
            /\ resolved' = 0
            /\ UNCHANGED cleanupCalls
       ELSE /\ eff' = [eff EXCEPT !.reset = TRUE, !.cleaned = TRUE]
            /\ cleanupCalls' = [cleanupCalls EXCEPT ![positionCleanup] = @ + 1]
            /\ IF tasks[Cur].op = "close"
                 THEN /\ tasks' = [tasks EXCEPT ![Cur].pc = "done"]
                      /\ queue' = Rest
                      /\ resolved' = Cur
                 ELSE /\ tasks' = [tasks EXCEPT ![Cur].pc = "closed"]
                      /\ queue' = Append(Rest, Cur)
                      /\ resolved' = 0
  /\ UNCHANGED <<config, aside, isOpen, positionCleanup, docListener, pickerDestroyed,
                 callbacks, running, waiting, lastCall>>

\* destroy(), after await this.close().
DestroyFinish ==
  /\ queue # <<>>
  /\ tasks[Cur].op = "destroy" /\ tasks[Cur].pc = "closed"
  /\ docListener' = FALSE
  /\ pickerDestroyed' = TRUE
  /\ callbacks' = 0
  /\ tasks' = [tasks EXCEPT ![Cur].pc = "done"]
  /\ queue' = Rest
  /\ resolved' = Cur
  /\ UNCHANGED <<config, aside, isOpen, popupParent, positionCleanup, cleanupCalls,
                 running, waiting, lastCall, eff>>

\* The oldest running animation finishes: its finished promise resolves, and the
\* tasks that awaited nothing else are resumed in the order they began to wait.
AnimationFinish ==
  /\ queue = <<>>
  /\ running # <<>>
  /\ LET a == Head(running)
         ready(t) == tasks[t].wait \subseteq {a}
         waits(t) == ~ready(t)
     IN /\ running' = Tail(running)
        /\ tasks' = [t \in DOMAIN tasks |-> [tasks[t] EXCEPT !.wait = @ \ {a}]]
        /\ queue' = SelectSeq(waiting, ready)
        /\ waiting' = SelectSeq(waiting, waits)
  /\ resolved' = 0
  /\ UNCHANGED <<config, aside, isOpen, popupParent, positionCleanup, cleanupCalls,
                 docListener, pickerDestroyed, callbacks, lastCall, eff>>

----------------------------------------------------------------------------
\* The calls of getOptions.

\* The objects a caller may pass: at most MaxGiven keys.
Arguments ==
  UNION {{[k \in S |-> argumentValue(k, c[k])] : c \in [S -> {0, 1}]} :
           S \in {T \in SUBSET OptionKeys : Cardinality(T) <= MaxGiven}}

\* getOptions(options)
GetOptions ==
  /\ given.passed
  /\ result = NoOptions
  /\ result' = getOptions(given.options)
  /\ UNCHANGED <<popup, defaultOptions, given, buttons, focus, pressed>>

\* getOptions(): the parameter defaults to {}.
GetOptionsNoArgument ==
  /\ ~given.passed
  /\ result = NoOptions
  /\ result' = getOptions(NoOptions)
  /\ UNCHANGED <<popup, defaultOptions, given, buttons, focus, pressed>>

NextOptions ==
  \/ GetOptions
  \/ GetOptionsNoArgument

\* The options the controller is constructed with where only options.ts or the
\* view is exercised.
FixedPopupInit ==
  /\ PopupInit
  /\ options = [rootElement |-> "undefined", animate |-> TRUE, autoHide |-> TRUE]
  /\ elAnimate

\* options.ts is loaded, and a call of getOptions is about to be made, with an
\* argument or without.
InitOptions ==
  /\ FixedPopupInit
  /\ defaultOptions = defaultOptionsObject
  /\ given \in [passed : {TRUE}, options : Arguments]
                \cup {[passed |-> FALSE, options |-> NoOptions]}
  /\ result = NoOptions
  /\ buttons = 0
  /\ focus = 0
  /\ pressed = <<>>

SpecOptions == InitOptions /\ [][NextOptions]_vars

----------------------------------------------------------------------------
\* The VariantPopup view.

\* The last two key presses.
Remember(key) ==
  LET all == Append(pressed, [key |-> key, from |-> focus])
  IN IF Len(all) > 2 THEN Tail(all) ELSE all

\* The popup is rendered for an emoji with this many skins; the first button is
\* focused.
Render(skins) ==
  /\ buttons' = 1 + skins
  /\ focus' = 0
  /\ pressed' = <<>>
  /\ UNCHANGED <<popup, defaultOptions, given, result>>

\* buttons[i].focus()
Focus(i) ==
  /\ i < buttons
  /\ focus' = i
  /\ pressed' = <<>>
  /\ UNCHANGED <<popup, defaultOptions, given, result, buttons>>

ArrowRight ==
  /\ buttons > 0
  /\ focus' = arrowRightTarget(focus, buttons)
  /\ pressed' = Remember("ArrowRight")
  /\ UNCHANGED <<popup, defaultOptions, given, result, buttons>>

ArrowLeft ==
  /\ buttons > 0
  /\ focus' = arrowLeftTarget(focus, buttons)
  /\ pressed' = Remember("ArrowLeft")
  /\ UNCHANGED <<popup, defaultOptions, given, result, buttons>>

NextVariants ==
  \/ \E skins \in 0..MaxSkins : Render(skins)
  \/ \E i \in 0..MaxSkins : Focus(i)
  \/ ArrowRight
  \/ ArrowLeft

\* The view is about to be rendered.
InitVariants == FixedPopupInit /\ AsideInit

SpecVariants == InitVariants /\ [][NextVariants]_vars

----------------------------------------------------------------------------
\* The popup controller.

Next ==
  \/ Open
  \/ Close
  \/ Toggle
  \/ Destroy
  \/ On
  \/ \E p \in BOOLEAN, t \in BOOLEAN : DocumentClick(p, t)
  \/ \E key \in Keys : handleKeydown(key)
  \/ EmojiSelect
  \/ OpenAttach
  \/ OpenFinish
  \/ CloseAnimate
  \/ CloseFinish
  \/ DestroyFinish
  \/ AnimationFinish

Spec == Init /\ [][Next]_vars

\* The event loop runs every queued continuation, and every animation that was
\* started finishes.  Calls and events are the environment's: none is required.
Fairness ==
  /\ WF_vars(OpenAttach)
  /\ WF_vars(OpenFinish)
  /\ WF_vars(CloseAnimate)
  /\ WF_vars(CloseFinish)
  /\ WF_vars(DestroyFinish)
  /\ WF_vars(AnimationFinish)

FairSpec == Spec /\ Fairness

----------------------------------------------------------------------------
\* Vocabulary of the properties.

\* The popup element is a child of the configured root element.
Attached == popupParent = rootElement

\* The last step resolved the promise of the most recent call: nothing else has
\* been called between that call and the resolution.
ResolvedLastCall == resolved # 0 /\ resolved = lastCall.id

\* The last step made a call of the given method.
Calls(api) == lastCall'.id # lastCall.id /\ lastCall'.api = api

NoRejection == \A t \in DOMAIN tasks : tasks[t].pc # "rejected"

Desynced == Quiescent /\ isOpen /\ ~Attached

----------------------------------------------------------------------------
\* C1 (as stated): when the promise of a toggle() resolves and nothing else has
\* been called since the toggle, isOpen and the attachment of the popup element
\* are both the opposite of what they were when toggle() was called.
C1_ToggleFlipsVisibleState ==
  (ResolvedLastCall /\ lastCall.api = "toggle") =>
     /\ isOpen = ~lastCall.preIsOpen
     /\ Attached = ~(lastCall.preParent = rootElement)

\* C1 (amended): toggle() acts as close() when isOpen is true and as open() when it
\* is false; when its promise resolves with nothing else called since, isOpen is the
\* opposite of what it was at the call, and the attachment of the popup element is
\* the opposite too when the call was made with no operation in flight and the
\* element attached exactly when isOpen was true.
C1_ToggleFlipsFromRest ==
  /\ lastCall.api = "toggle" =>
        lastCall.acted = (IF lastCall.preIsOpen THEN "close" ELSE "open")
  /\ (ResolvedLastCall /\ lastCall.api = "toggle") =>
        /\ isOpen = ~lastCall.preIsOpen
        /\ (lastCall.preQuiescent
            /\ ((lastCall.preParent = rootElement) <=> lastCall.preIsOpen))
             => Attached = ~(lastCall.preParent = rootElement)

\* A toggle() of an open, attached popup at rest has resolved.
C1_Witness ==
  /\ ResolvedLastCall /\ lastCall.api = "toggle"
  /\ lastCall.preQuiescent /\ lastCall.preIsOpen /\ lastCall.preParent = rootElement

\* C2: when open() is called on a closed popup with no operation in flight and
\* nothing else is called before its promise resolves, then at the resolution
\* isOpen is true, the popup element is a child of the configured rootElement
\* (document.body when none was given), the positioning set by this open is in
\* place and not cleaned up, the show animation is no longer running, and
\* 'picker:open' has been emitted exactly once.
C2_OpenResolvesOpened ==
  (ResolvedLastCall /\ lastCall.acted = "open" /\ lastCall.preQuiescent) =>
     /\ isOpen
     /\ popupParent = (IF options.rootElement = "undefined"
                         THEN "body" ELSE options.rootElement)
     /\ positionCleanup = resolved
     /\ cleanupCalls[resolved] = 0
     /\ resolved \notin getRunningAnimations
     /\ eff.emitted = 1

\* An open() of a popup at rest, with a custom rootElement and a show animation
\* of 150 ms, has resolved.
C2_Witness ==
  /\ ResolvedLastCall /\ lastCall.acted = "open" /\ lastCall.preQuiescent
  /\ options.rootElement = "custom"
  /\ tasks[resolved].anim = SHOW_HIDE_DURATION

\* C3: when close() is called on an open popup with no operation in flight and
\* nothing else is called before its promise resolves, then at the resolution
\* isOpen is false, the hide animation is no longer running, the popup element is
\* detached, the picker has been reset and the positioning cleanup of the last
\* open has been invoked.
C3_CloseResolvesClosed ==
  (ResolvedLastCall /\ lastCall.acted = "close" /\ lastCall.api # "destroy"
     /\ lastCall.preQuiescent) =>
     /\ ~isOpen
     /\ resolved \notin getRunningAnimations
     /\ popupParent = "none"
     /\ eff.reset
     /\ eff.cleaned
     /\ positionCleanup # 0
     /\ cleanupCalls[positionCleanup] >= 1

\* A close() of an open, attached popup at rest, with a hide animation of 150 ms,
\* has resolved.
C3_Witness ==
  /\ ResolvedLastCall /\ lastCall.api = "close" /\ lastCall.acted = "close"
  /\ lastCall.preQuiescent /\ lastCall.preParent = rootElement
  /\ tasks[resolved].anim = SHOW_HIDE_DURATION

\* C4: open() called while isOpen is true is a no-op: the call changes neither
\* isOpen, nor the parent of the popup element, nor the positioning, starts no
\* animation, schedules no continuation (so nothing is emitted later) and its
\* promise is resolved by the call.
C4_OpenWhileOpenIsNoop ==
  [][(Calls("open") /\ isOpen) =>
       /\ UNCHANGED <<isOpen, popupParent, positionCleanup, cleanupCalls, running,
                      queue, waiting, callbacks>>
       /\ tasks'[lastCall'.id].pc = "done"
       /\ resolved' = lastCall'.id]_vars

\* open() has been called on an open, attached popup.
C4_Witness ==
  /\ lastCall.api = "open" /\ lastCall.preIsOpen /\ lastCall.preParent = rootElement
  /\ resolved = lastCall.id

\* C5: close() called while isOpen is false is a no-op: the call changes neither
\* isOpen, nor the parent of the popup element, starts no animation, schedules no
\* continuation (so the picker is not reset and no positioning cleanup is invoked)
\* and its promise is resolved by the call.
C5_CloseWhileClosedIsNoop ==
  [][(Calls("close") /\ ~isOpen) =>
       /\ UNCHANGED <<isOpen, popupParent, positionCleanup, cleanupCalls, running,
                      queue, waiting, callbacks>>
       /\ tasks'[lastCall'.id].pc = "done"
       /\ resolved' = lastCall'.id]_vars

\* close() has been called on a popup that was opened and closed before.
C5_Witness ==
  /\ lastCall.api = "close" /\ ~lastCall.preIsOpen /\ lastCall.acted = "none"
  /\ resolved = lastCall.id
  /\ positionCleanup # 0

\* C6 (as stated): whenever a destroy() that was called while the picker was open
\* goes on to remove the document click listener and to invoke picker.destroy(),
\* isOpen is false and the popup element is detached, and this is still so when
\* the promise of destroy() resolves (the same step).
C6_DestroyClosesFirst ==
  [][DestroyFinish => (~isOpen /\ popupParent = "none"
                       /\ ~isOpen' /\ popupParent' = "none")]_vars

\* A destroy() has been resolved.
DestroyResolved ==
  \E t \in DOMAIN tasks : tasks[t].op = "destroy" /\ tasks[t].pc = "done"

\* C7 (as stated): once a destroy() has resolved, and while on() is not called
\* again, no step sets isOpen, attaches the popup element to the rootElement or
\* invokes a 'picker:open' callback.
C7_UnusableAfterDestroy ==
  [][(DestroyResolved /\ callbacks = 0 /\ callbacks' = 0) =>
       /\ ~isOpen'
       /\ (popupParent' # "none" => popupParent # "none")
       /\ eff'.invoked <= eff.invoked]_vars

\* The click with these targets starts a close().
ClickInitiatesClose(p, t) ==
  ENABLED (DocumentClick(p, t) /\ Calls("click") /\ lastCall'.acted = "close"
           /\ ~isOpen')

\* The click with these targets changes isOpen, the popup element's parent or the
\* running animations.
ClickChangesSomething(p, t) ==
  ENABLED (DocumentClick(p, t) /\ ~UNCHANGED <<isOpen, popupParent, running>>)

\* C8 (as stated): a click on the document initiates close() when the picker is
\* open, the click is not on the trigger element and not on the picker (and one
\* more call fits the model's bound); every other click leaves isOpen, the popup
\* element's parent and the running animations unchanged.
C8_ClickOutsideCloses ==
  \A p \in BOOLEAN, t \in BOOLEAN :
    IF isOpen /\ ~p /\ ~t
      THEN Len(tasks) < MaxCalls => ClickInitiatesClose(p, t)
      ELSE ~ClickChangesSomething(p, t)

\* C9: a keydown with key 'Escape' while the popup is open initiates close(), and
\* when the promise of that close() resolves with nothing else called since, the
\* popup is closed and detached; a keydown with any other key changes neither
\* isOpen nor the parent of the popup element.
C9_EscapeDismisses ==
  /\ [](/\ (lastCall.api = "keydown" /\ lastCall.preIsOpen) => lastCall.acted = "close"
        /\ (ResolvedLastCall /\ lastCall.api = "keydown" /\ lastCall.preIsOpen) =>
              (~isOpen /\ popupParent = "none"))
  /\ [][\A key \in Keys \ {"Escape"} :
          handleKeydown(key) => UNCHANGED <<isOpen, popupParent>>]_vars

\* Escape was pressed on an open, attached popup, and the close() it started has
\* resolved.
C9_Witness ==
  /\ ResolvedLastCall /\ lastCall.api = "keydown"
  /\ lastCall.preIsOpen /\ lastCall.preParent = rootElement

\* C10 (as stated): when the picker was created with animate: false, or the picker
\* element has no animate function, no open() or close() starts an animation of
\* non-zero duration.
C10_NoAnimationWhenDisabled ==
  (~options.animate \/ ~elAnimate) =>
     \A t \in DOMAIN tasks : tasks[t].anim <= 0

\* The defaults the documentation gives, rootElement included.
DocumentedDefaults ==
  [renderer |-> "new NativeRenderer()", theme |-> "lightTheme", animate |-> "true",
   showSearch |-> "true", showCategoryTabs |-> "true", showVariants |-> "true",
   showRecents |-> "true", showPreview |-> "true", emojisPerRow |-> "8",
   visibleRows |-> "6", emojiVersion |-> "auto", maxRecents |-> "50",
   i18n |-> "en", locale |-> "en", custom |-> "[]",
   rootElement |-> "document.body"]

C12_ArrowKeysCycle ==
  buttons > 0 =>
    /\ focus \in 0..(buttons - 1)
    /\ pressed # <<>> =>
         LET last == pressed[Len(pressed)]
         IN focus = (IF last.key = "ArrowRight" THEN last.from + 1 ELSE last.from - 1)
                       % buttons
    /\ (Len(pressed) = 2 /\ pressed[1].key = "ArrowLeft"
          /\ pressed[2].key = "ArrowRight") => focus = pressed[1].from

\* ArrowLeft on the first of at least three buttons, then ArrowRight.
C12_Witness ==
  /\ buttons >= 3 /\ Len(pressed) = 2
  /\ pressed[1] = [key |-> "ArrowLeft", from |-> 0]
  /\ pressed[2] = [key |-> "ArrowRight", from |-> buttons - 1]
  /\ focus = 0

\* C13: with every queued continuation run and every started animation finished,
\* the promise of every call of open(), close(), toggle() and destroy(), and of
\* every close() a click, a key or an emoji selection starts, is eventually
\* resolved.
C13_EveryPromiseResolves ==
  \A t \in TaskIds :
    (Len(tasks) >= t) ~> (Len(tasks) >= t /\ tasks[t].pc = "done")

\* As many calls as the bound allows have been made, one of them awaited an
\* animation of 150 ms that another call had started, and all have resolved.
C13_Witness ==
  /\ Len(tasks) = MaxCalls /\ Quiescent
  /\ \A t \in DOMAIN tasks : tasks[t].pc = "done"
  /\ \E t \in DOMAIN tasks : tasks[t].anim = SHOW_HIDE_DURATION
  /\ resolved # 0 /\ lastCall.id = MaxCalls /\ ~lastCall.preQuiescent

\* C14 (as stated): a show or hide animation is started on the picker element
\* only while no other show or hide animation is running.
C14_NoOverlappingAnimations ==
  [][((OpenAttach \/ CloseAnimate) /\ elAnimate) => running = <<>>]_vars

\* The most recent positioning is set and its cleanup has not been invoked.
PositioningActive == positionCleanup # 0 /\ cleanupCalls[positionCleanup] = 0

\* close() has not invoked positionCleanup while it was undefined.
C15_NoCleanupBeforeSet == \A t \in DOMAIN tasks : tasks[t].pc # "rejected"

\* No cleanup function has been invoked more than once.
C15_CleanupAtMostOnce == \A p \in TaskIds : cleanupCalls[p] <= 1

\* At rest the most recent positioning is active exactly when the popup element
\* is attached.
C15_ActiveIffAttached == Quiescent => (PositioningActive <=> Attached)

\* C15 (as stated): close() never invokes a positioning cleanup before one has
\* been set, every cleanup function is invoked at most once, and at rest the most
\* recent positioning is active if and only if the popup element is attached.
C15_PositioningCleanup ==
  /\ C15_NoCleanupBeforeSet
  /\ C15_CleanupAtMostOnce
  /\ C15_ActiveIffAttached

====
